---- MODULE Spec2Model ----
(***************************************************************************)
(* A model of typso.js: the static checks of class Typso, the two mode     *)
(* flags, the Express middleware validateRequestBody and normalize.        *)
(*                                                                         *)
(* A JavaScript value is a record [ty, rep, items, props]:                 *)
(*   ty    the result of typeof                                            *)
(*   rep   what the value of that type is: for ty "object" one of "null",  *)
(*         "Array", "Object" (a plain object) and "Date" (a Date           *)
(*         instance); for a string its text; for a number its digits or    *)
(*         "NaN"; for a function its name                                  *)
(*   items the slots of an array, each [present, ty, rep]; a slot that is  *)
(*         not present is a hole of a sparse array                         *)
(*   props the own properties of a plain object, one slot per key          *)
(* Every test of what a value is reads ty first: the string 'Array' is no  *)
(* array and the string 'null' is not null.                                *)
(* A client calls the exported operations one after the other: each call   *)
(* runs to its end in one step (pc "done") and then returns (pc "idle").   *)
(* An error message is the sequence of the pieces its template literal     *)
(* concatenates; the empty sequence is a null (or empty) message.          *)
(***************************************************************************)
EXTENDS Integers, Sequences, FiniteSets, TLC

\* Longest array drawn as an input.
MaxLen == 3
\* Most keys a schema drawn as an input declares.
MaxFields == 2
\* Largest number drawn for checkRange and checkLength.
MaxNum == 2

Keys == {"name", "age", "tags"}

(* ------------------------------ values --------------------------------- *)

Absent == [present |-> FALSE, ty |-> "undefined", rep |-> "undefined", items |-> <<>>]
Slot(ty, rep, items) == [present |-> TRUE, ty |-> ty, rep |-> rep, items |-> items]
NoProps == [k \in Keys |-> Absent]

\* A slot of an array that holds a value, and a hole: an index below length
\* that the array does not own.  Reading a hole gives undefined.
Elem(ty, rep) == [present |-> TRUE, ty |-> ty, rep |-> rep]
Hole == [present |-> FALSE, ty |-> "undefined", rep |-> "undefined"]

Scalar(ty, rep) == [ty |-> ty, rep |-> rep, items |-> <<>>, props |-> NoProps]
ArrayOf(items) == [ty |-> "object", rep |-> "Array", items |-> items, props |-> NoProps]
ObjectOf(props) == [ty |-> "object", rep |-> "Object", items |-> <<>>, props |-> props]
\* variable[i] for a slot of an array: undefined at a hole.
ElemValue(e) == IF e.present THEN Scalar(e.ty, e.rep) ELSE Scalar("undefined", "undefined")
SlotValue(s) == [ty |-> s.ty, rep |-> s.rep, items |-> s.items, props |-> NoProps]

Undefined == Scalar("undefined", "undefined")
Null == Scalar("object", "null")
Num25 == Scalar("number", "25")
NaN == Scalar("number", "NaN")
Str25 == Scalar("string", "25")
StrAlice == Scalar("string", "Alice")
BoolTrue == Scalar("boolean", "true")
FnIsAlice == Scalar("function", "isAlice")
DateValue == Scalar("object", "Date")
EmptyObject == ObjectOf(NoProps)
\* Values whose text is the name of another kind of value: the strings
\* 'Array', 'null', 'undefined' and 'Date', and the function Date itself.
StrArray == Scalar("string", "Array")
StrNull == Scalar("string", "null")
StrUndefined == Scalar("string", "undefined")
StrDate == Scalar("string", "Date")
FnDate == Scalar("function", "Date")

ScalarValues ==
  {Undefined, Null, Num25, NaN, Str25, StrAlice, BoolTrue, FnIsAlice, DateValue,
   StrArray, StrNull, StrUndefined, StrDate, FnDate}

Elems == {Elem("number", "25"), Elem("string", "25"),
          Elem("undefined", "undefined"), Hole}

SeqsUpTo(S, n) == UNION {[1..m -> S] : m \in 0..n}

\* The arrays of at most MaxLen slots, dense and sparse.
ArrayValues == {ArrayOf(s) : s \in SeqsUpTo(Elems, MaxLen)}

Slots == {Absent, Slot("string", "Alice", <<>>), Slot("string", "25", <<>>),
          Slot("number", "25", <<>>),
          Slot("object", "Array", <<Elem("string", "Alice")>>)}

ObjectValues == {ObjectOf(p) : p \in [Keys -> Slots]}

\* Values that are not a plain object with own properties.
PlainValues == ScalarValues \cup ArrayValues \cup {EmptyObject}

\* The values checkObject is given: the scalars, two arrays and the objects.
Bodies ==
  ScalarValues \cup {ArrayOf(<<>>), ArrayOf(<<Elem("string", "Alice")>>)}
    \cup ObjectValues

(* ---------------------------- descriptors ------------------------------ *)

\* A type descriptor by its shape: a string (name is the string), an array
\* (name is element 0, elem is element 1), a function (name is its name) or
\* any other object.  The functions are the constructors Date, Object and
\* Array and the arrow function isAlice = (v) => v === 'Alice'.
StrDesc(k) == [shape |-> "string", name |-> k, elem |-> ""]
ArrDesc(marker, k) == [shape |-> "array", name |-> marker, elem |-> k]
FnDesc(n) == [shape |-> "function", name |-> n, elem |-> ""]
ObjDesc == [shape |-> "object", name |-> "{}", elem |-> ""]
NoDesc == StrDesc("")

Kinds == {"string", "number", "object", "undefined"}

SchemaDescs == {StrDesc("string"), StrDesc("number"), ArrDesc("array", "string"),
                FnDesc("Date"), FnDesc("isAlice")}
AllDescs ==
  SchemaDescs \cup {ArrDesc("list", "string"), FnDesc("Object"), FnDesc("Array"),
                    ObjDesc}

(* ------------------------- language primitives ------------------------- *)

typeof(v) == v.ty
IsNull(v) == v.ty = "object" /\ v.rep = "null"
IsUndefined(v) == v.ty = "undefined"
\* How an error message of the language names null or undefined.
NullishName(v) == IF IsNull(v) THEN "null" ELSE "undefined"
\* Array.isArray(v)
IsArray(v) == v.ty = "object" /\ v.rep = "Array"
\* v is an object in the language's sense: not a primitive.
IsObjectValue(v) == v.ty \in {"object", "function"} /\ ~IsNull(v)

\* variable[key] for a key of Keys: ok is FALSE where the read throws a
\* TypeError, which it does for null and undefined only.
Get(variable, key) ==
  IF IsNull(variable) \/ IsUndefined(variable)
    THEN [ok |-> FALSE, value |-> Undefined]
    ELSE IF variable.ty = "object" /\ variable.rep = "Object"
              /\ variable.props[key].present
      THEN [ok |-> TRUE, value |-> SlotValue(variable.props[key])]
      ELSE IF variable.ty = "function" /\ key = "name"
        THEN [ok |-> TRUE, value |-> Scalar("string", variable.rep)]
        ELSE [ok |-> TRUE, value |-> Undefined]

\* The names of the constructors whose prototype is on the prototype chain
\* of v.
ProtoChain(v) ==
  IF v.ty = "function" THEN {"Function", "Object"}
  ELSE IF v.ty = "object" /\ v.rep \in {"Array", "Date"} THEN {v.rep, "Object"}
  ELSE IF v.ty = "object" /\ v.rep = "Object" THEN {"Object"}
  ELSE {}

\* variable instanceof instance: "notObject" (instance is a primitive),
\* "notCallable" (an object that is no function) and "noPrototype" (isAlice
\* is an arrow function, which has no prototype) where the operator throws.
\* A primitive variable is an instance of nothing; an object is an instance
\* of the constructors on its prototype chain.
InstanceOf(variable, instance) ==
  IF instance.shape = "string" THEN "notObject"
  ELSE IF instance.shape # "function" THEN "notCallable"
  ELSE IF ~IsObjectValue(variable) THEN "false"
  ELSE IF instance.name = "isAlice" THEN "noPrototype"
  ELSE IF instance.name \in ProtoChain(variable) THEN "true" ELSE "false"

\* validationFunc(variable) as a condition: "throws" where validationFunc
\* is no function, "invalidLength" where Array(NaN) throws its RangeError.
\* Date(v) is a string that is not empty, Object(v) an object, Array(v) an
\* array: all truthy.
CallFunc(validationFunc, variable) ==
  IF validationFunc.shape # "function" THEN "throws"
  ELSE IF validationFunc.name = "isAlice"
    THEN (IF variable.ty = "string" /\ variable.rep = "Alice" THEN "true" ELSE "false")
  ELSE IF validationFunc.name = "Array" /\ variable.ty = "number"
            /\ variable.rep = "NaN"
    THEN "invalidLength"
    ELSE "true"

\* The length of a string: the number of its characters.
StrLen(s) == Len(s)

\* value.length: kind "throws" where the read throws (null and undefined),
\* "undefined" where the value has no such property.  An array's length
\* counts its holes.  A function's length is the number of its parameters:
\* 7 for Date, 1 for Object, Array and (v) => ...
Length(value) ==
  IF IsNull(value) \/ IsUndefined(value) THEN [kind |-> "throws", n |-> 0]
  ELSE IF IsArray(value) THEN [kind |-> "number", n |-> Len(value.items)]
  ELSE IF value.ty = "string" THEN [kind |-> "number", n |-> StrLen(value.rep)]
  ELSE IF value.ty = "function"
    THEN [kind |-> "number", n |-> IF value.rep = "Date" THEN 7 ELSE 1]
  ELSE [kind |-> "undefined", n |-> 0]

RECURSIVE Join(_)
Join(types) ==
  IF Len(types) = 0 THEN <<>>
  ELSE IF Len(types) = 1 THEN <<types[1]>>
  ELSE <<types[1], ", ">> \o Join(Tail(types))

Includes(types, t) == \E i \in DOMAIN types : types[i] = t

(* ------------------------- outcome of a call --------------------------- *)

\* What a call did: whether it raised, the name and the message (err.name,
\* err.message) of the error it raised, the warnings it logged with
\* console.warn, and the checks it entered, in order.
Returned ==
  [raised |-> FALSE, name |-> "", error |-> <<>>, warnings |-> <<>>, calls |-> <<>>]
\* throw new Error(message)
Raise(message) ==
  [raised |-> TRUE, name |-> "Error", error |-> message, warnings |-> <<>>,
   calls |-> <<>>]
\* A TypeError thrown by the language itself; message is its err.message.
Native(message) ==
  [raised |-> TRUE, name |-> "TypeError", error |-> message, warnings |-> <<>>,
   calls |-> <<>>]
\* The RangeError of Array(NaN).
InvalidLength ==
  [raised |-> TRUE, name |-> "RangeError", error |-> <<"Invalid array length">>,
   warnings |-> <<>>, calls |-> <<>>]
Warn(message) ==
  [raised |-> FALSE, name |-> "", error |-> <<>>, warnings |-> <<message>>,
   calls |-> <<>>]
Enter(fn, variable, with) ==
  [raised |-> FALSE, name |-> "", error |-> <<>>, warnings |-> <<>>,
   calls |-> <<[fn |-> fn, arg |-> variable, with |-> with]>>]

\* Statement r followed by statement s: s runs only if r returned.
Then(r, s) ==
  IF r.raised THEN r
  ELSE [raised |-> s.raised, name |-> s.name, error |-> s.error,
        warnings |-> r.warnings \o s.warnings, calls |-> r.calls \o s.calls]

Or(customMessage, default) == IF customMessage # <<>> THEN customMessage ELSE default

(* ------------------------------ class Typso ---------------------------- *)

\* Private: Throw or Warn.  logWarnings is the flag as the call reads it.
_throwError(message, lw) == IF lw THEN Warn(message) ELSE Raise(message)

\* checkType with the two kinds of its message exchanged.
checkTypeSwapped(variable, type, customMessage, lw) ==
  Then(Enter("checkType", variable, StrDesc(type)),
       IF typeof(variable) # type
         THEN _throwError(Or(customMessage,
                <<"TypeError: Expected ", typeof(variable), " but received ", type>>), lw)
         ELSE Returned)

checkType(variable, type, customMessage, lw) ==
  Then(Enter("checkType", variable, StrDesc(type)),
       IF typeof(variable) # type
         THEN _throwError(Or(customMessage,
                <<"TypeError: Expected ", type, " but received ", typeof(variable)>>), lw)
         ELSE Returned)

checkInstance(variable, instance, customMessage, lw) ==
  Then(Enter("checkInstance", variable, instance),
       CASE InstanceOf(variable, instance) = "notObject" ->
              Native(<<"Right-hand side of 'instanceof' is not an object">>)
         [] InstanceOf(variable, instance) = "notCallable" ->
              Native(<<"Right-hand side of 'instanceof' is not callable">>)
         [] InstanceOf(variable, instance) = "noPrototype" ->
              Native(<<"Function has non-object prototype 'undefined' in instanceof check">>)
         [] InstanceOf(variable, instance) = "false" ->
              _throwError(Or(customMessage,
                <<"TypeError: Expected instance of ", instance.name>>), lw)
         [] OTHER -> Returned)

\* variable.forEach((item) => this.checkType(item, elementType, customMessage))
\* from index i on.  forEach does not call back for a hole.
RECURSIVE forEachItem(_, _, _, _, _)
forEachItem(items, i, elementType, customMessage, lw) ==
  IF i > Len(items) THEN Returned
  ELSE Then(IF items[i].present
              THEN checkType(ElemValue(items[i]), elementType, customMessage, lw)
              ELSE Returned,
            forEachItem(items, i + 1, elementType, customMessage, lw))

checkArray(variable, elementType, customMessage, lw) ==
  Then(Enter("checkArray", variable, StrDesc(elementType)),
  Then(IF ~IsArray(variable)
         THEN _throwError(<<"TypeError: Expected an array">>, lw)
         ELSE Returned,
       IF IsArray(variable)
         THEN forEachItem(variable.items, 1, elementType, customMessage, lw)
         ELSE IF IsNull(variable) \/ IsUndefined(variable)
           THEN Native(<<"Cannot read properties of ", NullishName(variable),
                          " (reading '", "forEach", "')">>)
           ELSE Native(<<"variable.forEach is not a function">>)))

checkUnion(variable, types, customMessage, lw) ==
  Then(Enter("checkUnion", variable, NoDesc),
       IF ~Includes(types, typeof(variable))
         THEN _throwError(Or(customMessage,
                <<"TypeError: Expected one of [">> \o Join(types)
                  \o <<"] but received ", typeof(variable)>>), lw)
         ELSE Returned)

checkCustom(variable, validationFunc, customMessage, lw) ==
  Then(Enter("checkCustom", variable, validationFunc),
       CASE CallFunc(validationFunc, variable) = "throws" ->
              Native(<<"validationFunc is not a function">>)
         [] CallFunc(validationFunc, variable) = "invalidLength" -> InvalidLength
         [] CallFunc(validationFunc, variable) = "false" ->
              _throwError(Or(customMessage,
                <<"ValidationError: Custom validation failed">>), lw)
         [] OTHER -> Returned)

\* _checkSchemaField with the instance branch tried before the predicate one.
_checkSchemaFieldInstanceFirst(value, expectedType, lw) ==
  IF expectedType.shape = "string"
    THEN checkType(value, expectedType.name, <<>>, lw)
  ELSE IF expectedType.shape = "array" /\ expectedType.name = "array"
    THEN checkArray(value, expectedType.elem, <<>>, lw)
  ELSE IF expectedType.shape \in {"function", "object"} /\ expectedType.name # "isAlice"
    THEN checkInstance(value, expectedType, <<>>, lw)
  ELSE checkCustom(value, expectedType, <<>>, lw)

\* Private: Check Field in Object Schema.
_checkSchemaField(value, expectedType, lw) ==
  IF expectedType.shape = "string"
    THEN checkType(value, expectedType.name, <<>>, lw)
  ELSE IF expectedType.shape = "array" /\ expectedType.name = "array"
    THEN checkArray(value, expectedType.elem, <<>>, lw)
  ELSE IF expectedType.shape = "function"
    THEN checkCustom(value, expectedType, <<>>, lw)
  ELSE checkInstance(value, expectedType, <<>>, lw)

\* The body of checkObject's forEach for one key of the schema.
checkField(variable, entry, lw) ==
  IF ~Get(variable, entry.key).ok
    THEN Native(<<"Cannot read properties of ", NullishName(variable),
                  " (reading '", entry.key, "')">>)
    ELSE _checkSchemaField(Get(variable, entry.key).value, entry.desc, lw)

\* Object.keys(schema).forEach(...) from index i on; schema lists its
\* entries [key, desc] in the order of Object.keys.
RECURSIVE forEachKey(_, _, _, _)
forEachKey(variable, schema, i, lw) ==
  IF i > Len(schema) THEN Returned
  ELSE Then(checkField(variable, schema[i], lw),
            forEachKey(variable, schema, i + 1, lw))

\* checkObject skipping the keys of the schema that variable does not own.
checkObjectOwnKeysOnly(variable, schema, lw) ==
  Then(Enter("checkObject", variable, NoDesc),
  Then(IF typeof(variable) # "object" \/ IsArray(variable)
         THEN _throwError(<<"TypeError: Expected an object">>, lw)
         ELSE Returned,
       forEachKey(variable,
                  SelectSeq(schema, LAMBDA e : variable.props[e.key].present), 1, lw)))

checkObject(variable, schema, lw) ==
  Then(Enter("checkObject", variable, NoDesc),
  Then(IF typeof(variable) # "object" \/ IsArray(variable)
         THEN _throwError(<<"TypeError: Expected an object">>, lw)
         ELSE Returned,
       forEachKey(variable, schema, 1, lw)))

\* variable instanceof Date
checkDate(variable, lw) ==
  Then(Enter("checkDate", variable, NoDesc),
       IF InstanceOf(variable, FnDesc("Date")) # "true"
         THEN _throwError(<<"TypeError: Expected a Date">>, lw)
         ELSE Returned)

checkBoolean(variable, lw) ==
  Then(Enter("checkBoolean", variable, NoDesc),
       checkType(variable, "boolean", <<>>, lw))

\* Number.isNaN(variable)
checkNotNaN(variable, lw) ==
  Then(Enter("checkNotNaN", variable, NoDesc),
       IF variable.ty = "number" /\ variable.rep = "NaN"
         THEN _throwError(<<"TypeError: Value should not be NaN">>, lw)
         ELSE Returned)

\* value, min and max are numbers.
checkRange(value, min, max, lw) ==
  IF value < min \/ value > max
    THEN _throwError(<<"RangeError: Value should be between ", ToString(min),
                       " and ", ToString(max)>>, lw)
    ELSE Returned

checkLength(value, minLength, maxLength, lw) ==
  Then(Enter("checkLength", value, NoDesc),
       IF Length(value).kind = "throws"
         THEN Native(<<"Cannot read properties of ", NullishName(value),
                       " (reading '", "length", "')">>)
       ELSE IF Length(value).kind = "number"
               /\ (Length(value).n < minLength \/ Length(value).n > maxLength)
         THEN _throwError(<<"LengthError: Length should be between ",
                ToString(minLength), " and ", ToString(maxLength)>>, lw)
         ELSE Returned)

(* ------------------------------ normalize ------------------------------ *)

\* One pass of normalize's forEach from index i on.  schema lists entries
\* [key, default]; a default slot that is absent or undefined is
\* schema[key].default === undefined.
RECURSIVE normalizeFrom(_, _, _)
normalizeFrom(schema, data, i) ==
  IF i > Len(schema) THEN data
  ELSE normalizeFrom(schema,
         IF data[schema[i].key].ty = "undefined" /\ schema[i].default.ty # "undefined"
           THEN [data EXCEPT ![schema[i].key] = schema[i].default]
           ELSE data,
         i + 1)

\* normalize assigning the default over a value that is already there.
RECURSIVE normalizeOverwrite(_, _)
normalizeOverwrite(schema, data) ==
  IF Len(schema) = 0 THEN data
  ELSE normalizeOverwrite(Tail(schema),
         IF schema[1].default.ty # "undefined"
           THEN [data EXCEPT ![schema[1].key] = schema[1].default]
           ELSE data)

normalize(schema, data) == normalizeFrom(schema, data, 1)

(* ------------------------------- inputs -------------------------------- *)

Messages == {<<>>, <<"custom message">>}

TypeLists == {<<>>, <<"number">>, <<"string", "number">>}

\* The orders in which a schema of at most MaxFields keys lists its keys.
KeyOrders ==
  {s \in SeqsUpTo(Keys, MaxFields) : \A i, j \in DOMAIN s : i # j => s[i] # s[j]}

Schemas ==
  UNION {{[i \in DOMAIN ks |-> [key |-> ks[i], desc |-> ds[i]]] :
            ds \in [DOMAIN ks -> SchemaDescs]} : ks \in KeyOrders}

NormSlots == {Absent, Slot("undefined", "undefined", <<>>),
              Slot("string", "Alice", <<>>), Slot("number", "25", <<>>)}

Defaults == {Absent, Slot("string", "Anonymous", <<>>), Slot("number", "18", <<>>)}

NormSchemas ==
  UNION {{[i \in DOMAIN ks |-> [key |-> ks[i], default |-> ds[i]]] :
            ds \in [DOMAIN ks -> Defaults]} : ks \in KeyOrders}

\* What the next of a request does when the middleware calls it: it returns
\* (the empty message) or throws an Error with this message.
NextErrors == {<<>>, <<"next failed">>}

(* ------------------------------- state --------------------------------- *)

VARIABLES
  pc,           \* "idle": the client is about to call; "done": a call has ended
  isStrict,     \* Typso.isStrict
  logWarnings,  \* Typso.logWarnings
  strictArg,    \* the argument of the latest enforceStrictMode call
  warnArg,      \* the argument of the latest enableWarnings call
  call,         \* the call that has ended: its name and arguments
  result,       \* what the check of that call did
  http,         \* what the middleware did with res and next
  data          \* the own properties of the object normalize was given

vars == <<pc, isStrict, logWarnings, strictArg, warnArg, call, result, http, data>>

NoCall ==
  [op |-> "none", variable |-> Undefined, type |-> "", types |-> <<>>,
   schema |-> <<>>, defaults |-> <<>>, desc |-> NoDesc, customMessage |-> <<>>,
   value |-> 0, min |-> 0, max |-> 0, passes |-> 0, nextError |-> <<>>]

\* status and json: the response sent (status 0: none); nextCalls: how often
\* next was called.
NoHttp == [status |-> 0, json |-> <<>>, nextCalls |-> 0]

Init ==
  /\ pc = "idle"
  /\ isStrict = TRUE
  /\ logWarnings = FALSE
  /\ strictArg = TRUE
  /\ warnArg = FALSE
  /\ call = NoCall
  /\ result = Returned
  /\ http = NoHttp
  /\ data = NoProps

\* A check called by the client runs to its end: c is the call, r what it did.
Finish(c, r) ==
  /\ pc = "idle"
  /\ pc' = "done"
  /\ call' = c
  /\ result' = r
  /\ UNCHANGED <<isStrict, logWarnings, strictArg, warnArg, http, data>>

(* ------------------------------ operations ----------------------------- *)

\* enforceStrictMode writing the other flag as well.
enforceStrictModeBothFlags(strict) ==
  /\ pc = "idle"
  /\ isStrict' = strict
  /\ logWarnings' = ~strict
  /\ strictArg' = strict
  /\ UNCHANGED <<pc, warnArg, call, result, http, data>>

enforceStrictMode(strict) ==
  /\ pc = "idle"
  /\ isStrict' = strict
  /\ strictArg' = strict
  /\ UNCHANGED <<pc, logWarnings, warnArg, call, result, http, data>>

enableWarnings(enable) ==
  /\ pc = "idle"
  /\ logWarnings' = enable
  /\ warnArg' = enable
  /\ UNCHANGED <<pc, isStrict, strictArg, call, result, http, data>>

\* The setters called with an argument, and with none (the default applies).
EnforceStrictMode == \E strict \in BOOLEAN : enforceStrictMode(strict)
EnforceStrictModeDefault == enforceStrictMode(TRUE)
EnableWarnings == \E enable \in BOOLEAN : enableWarnings(enable)
EnableWarningsDefault == enableWarnings(FALSE)

CheckType ==
  /\ pc = "idle"
  /\ \E v \in PlainValues, t \in Kinds, m \in Messages :
      Finish([NoCall EXCEPT !.op = "checkType", !.variable = v, !.type = t,
                            !.customMessage = m],
             checkType(v, t, m, logWarnings))

CheckInstance ==
  /\ pc = "idle"
  /\ \E v \in PlainValues, d \in AllDescs,
       m \in Messages :
      Finish([NoCall EXCEPT !.op = "checkInstance", !.variable = v, !.desc = d,
                            !.customMessage = m],
             checkInstance(v, d, m, logWarnings))

CheckArray ==
  /\ pc = "idle"
  /\ \E v \in PlainValues, t \in Kinds, m \in Messages :
      Finish([NoCall EXCEPT !.op = "checkArray", !.variable = v, !.type = t,
                            !.customMessage = m],
             checkArray(v, t, m, logWarnings))

CheckUnion ==
  /\ pc = "idle"
  /\ \E v \in PlainValues, ts \in TypeLists, m \in Messages :
      Finish([NoCall EXCEPT !.op = "checkUnion", !.variable = v, !.types = ts,
                            !.customMessage = m],
             checkUnion(v, ts, m, logWarnings))

CheckObject ==
  /\ pc = "idle"
  /\ \E v \in Bodies, s \in Schemas :
      Finish([NoCall EXCEPT !.op = "checkObject", !.variable = v, !.schema = s],
             checkObject(v, s, logWarnings))

CheckDate ==
  /\ pc = "idle"
  /\ \E v \in PlainValues :
      Finish([NoCall EXCEPT !.op = "checkDate", !.variable = v],
             checkDate(v, logWarnings))

CheckBoolean ==
  /\ pc = "idle"
  /\ \E v \in PlainValues :
      Finish([NoCall EXCEPT !.op = "checkBoolean", !.variable = v],
             checkBoolean(v, logWarnings))

CheckCustom ==
  /\ pc = "idle"
  /\ \E v \in PlainValues,
       d \in {FnDesc("Date"), FnDesc("isAlice"), FnDesc("Object"), FnDesc("Array"),
              ObjDesc},
       m \in Messages :
      Finish([NoCall EXCEPT !.op = "checkCustom", !.variable = v, !.desc = d,
                            !.customMessage = m],
             checkCustom(v, d, m, logWarnings))

CheckNotNaN ==
  /\ pc = "idle"
  /\ \E v \in PlainValues :
      Finish([NoCall EXCEPT !.op = "checkNotNaN", !.variable = v],
             checkNotNaN(v, logWarnings))

CheckRange ==
  /\ pc = "idle"
  /\ \E value \in 0..MaxNum, min \in 0..MaxNum, max \in 0..MaxNum :
      Finish([NoCall EXCEPT !.op = "checkRange", !.value = value, !.min = min,
                            !.max = max],
             checkRange(value, min, max, logWarnings))

CheckLength ==
  /\ pc = "idle"
  /\ \E v \in PlainValues, min \in 0..MaxNum, max \in 0..MaxNum :
      Finish([NoCall EXCEPT !.op = "checkLength", !.variable = v, !.min = min,
                            !.max = max],
             checkLength(v, min, max, logWarnings))

CheckSchemaField ==
  /\ pc = "idle"
  /\ \E v \in PlainValues, d \in AllDescs :
      Finish([NoCall EXCEPT !.op = "_checkSchemaField", !.variable = v, !.desc = d],
             _checkSchemaField(v, d, logWarnings))

\* The handler validateRequestBody(schema) returns, run on one request whose
\* body is body.  r is what checkObject did inside the try block.  next() is
\* inside the same try block: it is called only if checkObject returned, and
\* if it throws (nextError is the message) the catch answers that error too.
\* The response carries err.message, which for a native TypeError is without
\* its name.
middleware(body, schema, r, nextError) ==
  /\ pc = "idle"
  /\ pc' = "done"
  /\ call' = [NoCall EXCEPT !.op = "validateRequestBody", !.variable = body,
                            !.schema = schema, !.nextError = nextError]
  /\ result' = r
  /\ http' = IF r.raised
               THEN [status |-> 400, json |-> r.error, nextCalls |-> 0]
             ELSE IF nextError # <<>>
               THEN [status |-> 400, json |-> nextError, nextCalls |-> 1]
               ELSE [status |-> 0, json |-> <<>>, nextCalls |-> 1]
  /\ UNCHANGED <<isStrict, logWarnings, strictArg, warnArg, data>>

ValidateRequestBody ==
  /\ pc = "idle"
  /\ \E body \in Bodies, s \in Schemas, e \in NextErrors :
      middleware(body, s, checkObject(body, s, logWarnings), e)

\* normalize(schema, data) on a fresh object, and once more on what it
\* returned (the same object, changed in place).
Normalize ==
  /\ pc = "idle"
  /\ \E s \in NormSchemas, d \in [Keys -> NormSlots] :
      /\ pc = "idle"
      /\ pc' = "done"
      /\ call' = [NoCall EXCEPT !.op = "normalize", !.variable = ObjectOf(d),
                                !.defaults = s, !.passes = 1]
      /\ data' = normalize(s, d)
      /\ UNCHANGED <<isStrict, logWarnings, strictArg, warnArg, result, http>>

NormalizeAgain ==
  /\ pc = "done"
  /\ call.op = "normalize"
  /\ call.passes = 1
  /\ call' = [call EXCEPT !.passes = 2]
  /\ data' = normalize(call.defaults, data)
  /\ UNCHANGED <<pc, isStrict, logWarnings, strictArg, warnArg, result, http>>

\* The call has returned to (or raised into) the client, which goes on to
\* its next call.
Return ==
  /\ pc = "done"
  /\ pc' = "idle"
  /\ call' = NoCall
  /\ result' = Returned
  /\ http' = NoHttp
  /\ data' = NoProps
  /\ UNCHANGED <<isStrict, logWarnings, strictArg, warnArg>>

Next ==
  \/ EnforceStrictMode
  \/ EnforceStrictModeDefault
  \/ EnableWarnings
  \/ EnableWarningsDefault
  \/ CheckType
  \/ CheckInstance
  \/ CheckArray
  \/ CheckUnion
  \/ CheckObject
  \/ CheckDate
  \/ CheckBoolean
  \/ CheckCustom
  \/ CheckNotNaN
  \/ CheckRange
  \/ CheckLength
  \/ CheckSchemaField
  \/ ValidateRequestBody
  \/ Normalize
  \/ NormalizeAgain
  \/ Return

Spec == Init /\ [][Next]_vars

(* ------------------------------ properties ----------------------------- *)

CheckOps == {"checkType", "checkInstance", "checkArray", "checkUnion", "checkObject",
             "checkDate", "checkBoolean", "checkCustom", "checkNotNaN", "checkRange",
             "checkLength"}

Done(op) == pc = "done" /\ call.op = op

\* An object: typeof "object", neither null nor an array.
IsObject(v) == v.ty = "object" /\ ~IsNull(v) /\ ~IsArray(v)

Least(S) == CHOOSE i \in S : \A j \in S : i <= j

\* The check a descriptor is to be dispatched to, by its shape.
DispatchedTo(d) ==
  IF d.shape = "string" THEN "checkType"
  ELSE IF d.shape = "array" /\ d.name = "array" THEN "checkArray"
  ELSE IF d.shape = "function" THEN "checkCustom"
  ELSE "checkInstance"

\* C1: with warn-only mode on, a check call whose input fails the check (it
\* logged a warning) returns normally to its caller and raises nothing.
C1_WarnOnlyReturnsNormally ==
  (pc = "done" /\ logWarnings /\ call.op \in CheckOps /\ result.warnings # <<>>)
    => ~result.raised

\* C2: in default mode checkObject fails with 'Expected an object' for every
\* schema whenever the value is null, an array or not of typeof "object".
C2_NotAnObject ==
  (Done("checkObject") /\ ~logWarnings /\ ~IsObject(call.variable))
    => (result.raised /\ result.error = <<"TypeError: Expected an object">>)

\* The value checkObject reads for entry i of the schema, and whether the
\* check dispatched for it passes in default mode.
FieldValue(v, schema, i) == Get(v, schema[i].key).value
FieldPasses(v, schema, i) ==
  ~_checkSchemaField(FieldValue(v, schema, i), schema[i].desc, FALSE).raised
SchemaKeys(schema) == {schema[i].key : i \in DOMAIN schema}

\* C3: in default mode checkObject(O, S) on an object O returns normally iff
\* for every key of S the value O[key] passes the check _checkSchemaField
\* dispatches for S[key]; changing a key of O that is not in S changes nothing.
C3_ObjectIffEveryField ==
  (Done("checkObject") /\ ~logWarnings /\ IsObject(call.variable))
    => /\ ~result.raised
            <=> \A i \in DOMAIN call.schema : FieldPasses(call.variable, call.schema, i)
       /\ \A k \in Keys \ SchemaKeys(call.schema), s \in Slots :
            result.raised
              = checkObject([call.variable EXCEPT !.props[k] = s], call.schema,
                            FALSE).raised

C3_Witness ==
  /\ Done("checkObject") /\ ~logWarnings
  /\ IsObject(call.variable) /\ call.variable.rep = "Object"
  /\ Len(call.schema) = 2
  /\ \E k \in Keys \ SchemaKeys(call.schema) : call.variable.props[k].present
  /\ FieldPasses(call.variable, call.schema, 1)
  /\ ~FieldPasses(call.variable, call.schema, 2)
  /\ result.raised

\* The indices of an array whose element A[i] is not of kind k; A[i] is
\* undefined at a hole.
BadItems(items, k) == {i \in DOMAIN items : ElemValue(items[i]).ty # k}
\* The elements checkArray handed to checkType, in order.
CheckedItems(r) == [i \in 1..(Len(r.calls) - 1) |-> r.calls[i + 1].arg]

\* C4: in default mode checkArray(A, k) on an array A returns normally iff
\* every element A[0], ..., A[length - 1] has kind k; otherwise it raises
\* for the first element of another kind, in index order, and checks no
\* element after that one.
C4_ArrayIffEveryElement ==
  (Done("checkArray") /\ ~logWarnings /\ IsArray(call.variable))
    => LET items == call.variable.items
           bad == BadItems(items, call.type)
       IN /\ ~result.raised <=> bad = {}
          /\ bad # {}
               => /\ result.error
                       = Or(call.customMessage,
                            <<"TypeError: Expected ", call.type, " but received ",
                              ElemValue(items[Least(bad)]).ty>>)
                  /\ Len(CheckedItems(result)) <= Least(bad)

\* The three outcomes of a check call.
OutcomeOf(r) ==
  IF r.raised THEN "raise" ELSE IF r.warnings # <<>> THEN "warn" ELSE "pass"

\* The outcome of a check that has one condition to fail on, when the latest
\* enableWarnings argument is w.
Verdict(fails, w) == IF ~fails THEN "pass" ELSE IF w THEN "warn" ELSE "raise"

\* The outcome each check is to have, stated from its arguments and w alone.
\* A value that is no array ends checkArray with an error in both modes, and
\* so does a descriptor that instanceof or the call of the predicate throws
\* on.
ArrayVerdict(v, k, w) ==
  IF ~IsArray(v) THEN "raise"
  ELSE Verdict(\E i \in DOMAIN v.items : v.items[i].present /\ v.items[i].ty # k, w)

InstanceVerdict(v, d, w) ==
  IF InstanceOf(v, d) \in {"notObject", "notCallable", "noPrototype"} THEN "raise"
  ELSE Verdict(InstanceOf(v, d) = "false", w)

CustomVerdict(v, d, w) ==
  IF CallFunc(d, v) \in {"throws", "invalidLength"} THEN "raise"
  ELSE Verdict(CallFunc(d, v) = "false", w)

LengthVerdict(v, min, max, w) ==
  IF IsNull(v) \/ IsUndefined(v) THEN "raise"
  ELSE Verdict(Length(v).kind = "number" /\ (Length(v).n < min \/ Length(v).n > max), w)

FieldVerdict(v, d, w) ==
  CASE DispatchedTo(d) = "checkType" -> Verdict(v.ty # d.name, w)
    [] DispatchedTo(d) = "checkArray" -> ArrayVerdict(v, d.elem, w)
    [] DispatchedTo(d) = "checkCustom" -> CustomVerdict(v, d, w)
    [] OTHER -> InstanceVerdict(v, d, w)

ObjectVerdict(v, schema, w) ==
  LET rejected == v.ty # "object" \/ IsArray(v)
      fields == {FieldVerdict(Get(v, schema[i].key).value, schema[i].desc, w) :
                   i \in DOMAIN schema}
  IN IF rejected /\ ~w THEN "raise"
     ELSE IF (IsNull(v) \/ IsUndefined(v)) /\ schema # <<>> THEN "raise"
     ELSE IF "raise" \in fields THEN "raise"
     ELSE IF rejected \/ "warn" \in fields THEN "warn"
     ELSE "pass"

ExpectedOutcome(c, w) ==
  CASE c.op = "checkType" -> Verdict(c.variable.ty # c.type, w)
    [] c.op = "checkBoolean" -> Verdict(c.variable.ty # "boolean", w)
    [] c.op = "checkUnion" ->
         Verdict(\A i \in DOMAIN c.types : c.types[i] # c.variable.ty, w)
    [] c.op = "checkDate" ->
         Verdict(~(c.variable.ty = "object" /\ c.variable.rep = "Date"), w)
    [] c.op = "checkNotNaN" ->
         Verdict(c.variable.ty = "number" /\ c.variable.rep = "NaN", w)
    [] c.op = "checkRange" -> Verdict(c.value < c.min \/ c.value > c.max, w)
    [] c.op = "checkLength" -> LengthVerdict(c.variable, c.min, c.max, w)
    [] c.op = "checkInstance" -> InstanceVerdict(c.variable, c.desc, w)
    [] c.op = "checkCustom" -> CustomVerdict(c.variable, c.desc, w)
    [] c.op = "checkArray" -> ArrayVerdict(c.variable, c.type, w)
    [] c.op = "checkObject" -> ObjectVerdict(c.variable, c.schema, w)
    [] OTHER -> FieldVerdict(c.variable, c.desc, w)

\* C5: the flags are what the latest call of their setter set (TRUE and
\* FALSE before any), so no check changes them; and the outcome of a check
\* call (pass, warn-and-return or raise) is the one its arguments and the
\* latest enableWarnings argument fix, whatever the strict flag is and
\* whatever calls came before.
C5_OutcomeFromLatestEnableWarnings ==
  /\ isStrict = strictArg
  /\ logWarnings = warnArg
  /\ (pc = "done" /\ call.op \in CheckOps \cup {"_checkSchemaField"})
       => OutcomeOf(result) = ExpectedOutcome(call, warnArg)

C5_Witness ==
  /\ pc = "done" /\ call.op \in CheckOps
  /\ warnArg /\ ~strictArg
  /\ OutcomeOf(result) = "warn"

Alice25 == [NoProps EXCEPT !["name"] = Slot("string", "Alice", <<>>),
                           !["age"] = Slot("string", "25", <<>>)]
NameAgeSchema == <<[key |-> "name", desc |-> StrDesc("string")],
                   [key |-> "age", desc |-> StrDesc("number")]>>
IsAlice25Call ==
  /\ Done("checkObject") /\ ~logWarnings
  /\ call.variable = ObjectOf(Alice25)
  /\ call.schema = NameAgeSchema

\* C6 as stated: the error of checkObject({name: "Alice", age: "25"},
\* {name: "string", age: "number"}) mentions the field 'age', the expected
\* kind 'number' and the received kind 'string'.
C6_ErrorNamesField ==
  IsAlice25Call
    => /\ result.raised
       /\ Includes(result.error, "age")
       /\ Includes(result.error, "number")
       /\ Includes(result.error, "string")

\* The message of the error a failing field raises in default mode, stated
\* from the value and the descriptor of the field alone: the two kinds for a
\* string descriptor, 'Expected an array' or the two kinds of the first
\* element of another kind for an array descriptor, the fixed text of
\* checkCustom (or the predicate's own error) for a function, and the
\* error of instanceof for any other descriptor.
FieldError(v, d) ==
  CASE DispatchedTo(d) = "checkType" ->
         <<"TypeError: Expected ", d.name, " but received ", v.ty>>
    [] DispatchedTo(d) = "checkArray" ->
         IF ~IsArray(v) THEN <<"TypeError: Expected an array">>
         ELSE LET bad == {i \in DOMAIN v.items :
                            v.items[i].present /\ v.items[i].ty # d.elem}
              IN <<"TypeError: Expected ", d.elem, " but received ",
                   v.items[Least(bad)].ty>>
    [] DispatchedTo(d) = "checkCustom" ->
         IF CallFunc(d, v) = "invalidLength" THEN <<"Invalid array length">>
         ELSE <<"ValidationError: Custom validation failed">>
    [] OTHER -> <<"Right-hand side of 'instanceof' is not callable">>

\* The entries of the schema whose field is to fail in default mode.
FailingFields(v, schema) ==
  {i \in DOMAIN schema :
     FieldVerdict(FieldValue(v, schema, i), schema[i].desc, FALSE) = "raise"}

\* C6 amended: in default mode the example raises 'TypeError: Expected
\* number but received string', with the expected and the received kind but
\* without the key 'age'; and in general the error of a failing schema
\* field, whatever the shape of its descriptor, is made from the value and
\* the descriptor alone and names no key: checkObject on an object raises
\* the error of its first failing field.
C6_ErrorIsKindsOnly ==
  /\ IsAlice25Call
       => /\ result.raised
          /\ result.error = <<"TypeError: Expected ", "number", " but received ", "string">>
          /\ ~Includes(result.error, "age")
  /\ (Done("checkObject") /\ ~logWarnings /\ IsObject(call.variable) /\ result.raised)
       => /\ FailingFields(call.variable, call.schema) # {}
          /\ LET i == Least(FailingFields(call.variable, call.schema))
             IN result.error
                  = FieldError(FieldValue(call.variable, call.schema, i),
                               call.schema[i].desc)
          /\ \A k \in Keys : ~Includes(result.error, k)
  /\ (Done("_checkSchemaField") /\ ~logWarnings /\ result.raised)
       => /\ result.error = FieldError(call.variable, call.desc)
          /\ \A k \in Keys : ~Includes(result.error, k)

C6_Witness == IsAlice25Call /\ result.raised

\* What normalize is to leave in an object whose properties were props: the
\* default in the keys of the schema that read undefined and have one, the
\* rest as it was.
Normalized(schema, props) ==
  [k \in Keys |->
     IF \E i \in DOMAIN schema :
          schema[i].key = k /\ props[k].ty = "undefined"
            /\ schema[i].default.ty # "undefined"
       THEN schema[CHOOSE i \in DOMAIN schema : schema[i].key = k].default
       ELSE props[k]]

\* C7: the first normalize(S, O) assigns S[key].default to exactly the keys
\* of S for which O[key] is undefined and a default is defined and leaves the
\* other fields alone, and a second application changes no field.
C7_NormalizeIdempotent ==
  Done("normalize")
    => /\ data = Normalized(call.defaults, call.variable.props)
       /\ normalize(call.defaults, data) = data

C7_Witness ==
  /\ Done("normalize") /\ call.passes = 2
  /\ Len(call.defaults) = 2
  /\ data # call.variable.props
  /\ \E k \in Keys : call.variable.props[k].present /\ data[k] = call.variable.props[k]
  /\ \E i \in DOMAIN call.defaults :
       /\ call.defaults[i].default.ty # "undefined"
       /\ data[call.defaults[i].key] # call.defaults[i].default

\* C8: a request whose checkObject(req.body, schema) raises gets status 400
\* with the failure message and next() is not called; one whose checkObject
\* returns gets next() called once and no response from the middleware.
C8_MiddlewareEitherOr ==
  Done("validateRequestBody")
    => /\ result.raised
            => http.status = 400 /\ http.json = result.error /\ http.nextCalls = 0
       /\ ~result.raised => http.status = 0 /\ http.nextCalls = 1

\* C9: _checkSchemaField sends a string to checkType, an array headed by
\* 'array' to checkArray with its second element, any function to
\* checkCustom and only the rest to checkInstance; so schema dispatch never
\* instance-checks against a function.
C9_DispatchByShape ==
  /\ Done("_checkSchemaField")
       => /\ result.calls[1].fn = DispatchedTo(call.desc)
          /\ result.calls[1].arg = call.variable
          /\ result.calls[1].with
               = IF call.desc.shape = "string" THEN StrDesc(call.desc.name)
                 ELSE IF call.desc.shape = "array" /\ call.desc.name = "array"
                   THEN StrDesc(call.desc.elem)
                 ELSE call.desc
  /\ (pc = "done" /\ call.op \in {"_checkSchemaField", "checkObject", "validateRequestBody"})
       => \A i \in DOMAIN result.calls :
            result.calls[i].fn = "checkInstance"
              => result.calls[i].with.shape # "function"

C9_Witness ==
  /\ Done("_checkSchemaField")
  /\ call.desc = FnDesc("Date")
  /\ call.variable = Str25
  /\ result.calls[1].fn = "checkCustom"
  /\ ~result.raised

RECURSIVE Concat(_)
Concat(ss) == IF Len(ss) = 0 THEN <<>> ELSE Head(ss) \o Concat(Tail(ss))

\* The warnings field i of the schema gives rise to when checked on its own.
FieldWarnings(v, schema, i) ==
  _checkSchemaField(FieldValue(v, schema, i), schema[i].desc, TRUE).warnings

\* C10: with warn-only mode on, checkArray on an array logs one warning per
\* element of another kind, in index order, and checkObject on an object logs
\* the warnings of all its failing fields in the schema's key order, none
\* skipped after an earlier failure.
C10_EveryFailureLogged ==
  /\ (Done("checkArray") /\ logWarnings /\ IsArray(call.variable))
       => LET items == call.variable.items
          IN result.warnings
               = Concat([i \in DOMAIN items |->
                   IF items[i].ty # call.type
                     THEN <<Or(call.customMessage,
                               <<"TypeError: Expected ", call.type, " but received ",
                                 items[i].ty>>)>>
                     ELSE <<>>])
  /\ (Done("checkObject") /\ logWarnings /\ IsObject(call.variable))
       => result.warnings
            = Concat([i \in DOMAIN call.schema |->
                        FieldWarnings(call.variable, call.schema, i)])

====
